---- MODULE Spec2Model ----
(***************************************************************************)
(* Model of react/features/face-landmarks/functions.ts: the face-landmark  *)
(* capture-and-report pipeline (peer broadcast, server report, webhook     *)
(* submission, worker dispatch, derived display helpers),                  *)
(* and of NotificationsContainer._onDismissed in                           *)
(* react/features/notifications/components/web/NotificationsContainer.tsx. *)
(*                                                                         *)
(* Optional JavaScript values (undefined | value) are modelled as sets of  *)
(* at most one element: {} is undefined, {v} is the value v.               *)
(***************************************************************************)
EXTENDS Integers, Sequences, FiniteSets, TLC

VARIABLES
    \* ---- redux state read by sendFaceExpressionsWebhook
    webhookProxyUrl,        \* state['features/base/config'].webhookProxyUrl
    jwt,                    \* state['features/base/jwt'].jwt
    conference,             \* state['features/base/conference'].conference
    connection,             \* state['features/base/connection'].connection
    localParticipant,       \* getLocalParticipant(state)
    faceExpressionsBuffer,  \* state['features/face-landmarks'].faceExpressionsBuffer
    \* ---- environment of the webhook submission
    now,                    \* Date.now()
    requests,               \* the fetch() calls issued by the invocation, in order
    wh,                     \* the invocation of sendFaceExpressionsWebhook
    \* ---- sendDataToWorker
    hasOffscreenCanvas,     \* typeof OffscreenCanvas !== 'undefined'
    canvas,                 \* module-level canvas (fallback path only)
    context,                \* module-level 2d context, null when unavailable
    bitmapCloses,           \* per grabbed bitmap: the number of close() calls
    workerQueue,            \* messages posted to the worker, not yet handled
    workerHandled,          \* number of messages the worker has handled
    sw,                     \* the invocations of sendDataToWorker
    \* ---- synchronous helpers
    faceLandmarks,          \* state['features/base/config'].faceLandmarks
    detectionInterval,      \* result of the last getDetectionInterval call
    send,                   \* the last call of a send* function on the conference
    faceBoxes,              \* state['features/face-landmarks'].faceBoxes
    objectPosition,         \* the last call of getVideoObjectPosition
    \* ---- NotificationsContainer
    _timeouts,              \* this._timeouts: Map from `${uid}` to a timer id
    pendingTimers,          \* the timers of the window that clearTimeout can cancel
    dispatched,             \* the actions given to this.props.dispatch, in order
    dismissal               \* the calls of _onDismissed: their number, the last one

webhookVars == <<webhookProxyUrl, jwt, conference, connection, localParticipant,
                 faceExpressionsBuffer, now, requests, wh>>

workerVars == <<hasOffscreenCanvas, canvas, context, bitmapCloses, workerQueue,
                workerHandled, sw>>

helperVars == <<faceLandmarks, detectionInterval, send, faceBoxes, objectPosition>>

notificationVars == <<_timeouts, pendingTimers, dispatched, dismissal>>

vars == <<webhookVars, workerVars, helperVars, notificationVars>>

-----------------------------------------------------------------------------
(* Bounds *)

MaxBuffer == 2
MaxClock == 2
NumInvocations == 2
NumNotifications == 2
MaxDismissals == 3

-----------------------------------------------------------------------------
(* Values *)

Undefined == {}

Some(v) == {v}

\* The value held by a defined optional.
The(o) == CHOOSE v \in o : TRUE

Expressions == {"happy", "sad"}

Urls == {Undefined, Some(""), Some("https://proxy")}

Tokens == {Undefined, Some(""), Some("tok")}

Statuses == {200, 404, 500}

\* The session, connection and local participant the state holds: before
\* joining, joined, joined without a local participant record.
Identities ==
    { [conference |-> Undefined, connection |-> Undefined, localParticipant |-> Undefined],
      [conference       |-> Some([sessionId |-> Some("s1")]),
       connection       |-> Some([jid |-> Some("jid1")]),
       localParticipant |-> Some([jwtId |-> Some("p1"), name |-> Some("Ann")])],
      [conference       |-> Some([sessionId |-> Undefined]),
       connection       |-> Some([jid |-> Some("jid1")]),
       localParticipant |-> Undefined] }

RECURSIVE SeqsUpTo(_, _)
SeqsUpTo(S, n) ==
    IF n = 0 THEN {<<>>}
    ELSE LET shorter == SeqsUpTo(S, n - 1)
         IN shorter \cup {Append(s, x) : s \in shorter, x \in S}

-----------------------------------------------------------------------------
(* sendFaceExpressionsWebhook *)

\* JavaScript truthiness of an optional string: undefined and '' are falsy.
TruthyString(o) == o # Undefined /\ The(o) # ""

\* if (faceExpressionsBuffer.length === 0) return false;
BufferIsEmpty(buffer) == Len(buffer) = 0

\* Variant: tests the URL against undefined only, so '' counts as configured.
UrlConfiguredWhenDefined(url) == url # Undefined

\* if (url) { ... }
UrlConfigured(url) == TruthyString(url)

\* Variant: the Authorization header is written unconditionally.
HeadersAlwaysAuthorization(token) ==
    ("Authorization" :> ("Bearer " \o (IF token = Undefined THEN "undefined" ELSE The(token))))
        @@ ("Content-Type" :> "application/json")

\* { ...jwt ? { 'Authorization': `Bearer ${jwt}` } : {}, 'Content-Type': 'application/json' }
Headers(token) ==
    IF TruthyString(token)
    THEN ("Authorization" :> ("Bearer " \o The(token))) @@ ("Content-Type" :> "application/json")
    ELSE ("Content-Type" :> "application/json")

\* Variant: the first buffered entry is left out of the body.
ReqBodyDropsFirst(conf, lp, conn, buffer, time) ==
    [ meetingFqn      |-> Some("fqn"),
      sessionId       |-> IF conf = Undefined THEN Undefined ELSE The(conf).sessionId,
      submitted       |-> Some(time),
      emotions        |-> Some(Tail(buffer)),
      participantId   |-> IF lp = Undefined THEN Undefined ELSE The(lp).jwtId,
      participantName |-> IF lp = Undefined THEN Undefined ELSE The(lp).name,
      participantJid  |-> IF conn = Undefined THEN Undefined ELSE The(conn).jid ]

\* The reqBody object literal; optional chaining yields undefined on a missing
\* conference, participant or connection.
ReqBody(conf, lp, conn, buffer, time) ==
    [ meetingFqn      |-> Some("fqn"),
      sessionId       |-> IF conf = Undefined THEN Undefined ELSE The(conf).sessionId,
      submitted       |-> Some(time),
      emotions        |-> Some(buffer),
      participantId   |-> IF lp = Undefined THEN Undefined ELSE The(lp).jwtId,
      participantName |-> IF lp = Undefined THEN Undefined ELSE The(lp).name,
      participantJid  |-> IF conn = Undefined THEN Undefined ELSE The(conn).jid ]

\* JSON.stringify of an object: the keys whose value is undefined are left
\* out, the others are written with their value at the time of the call.
JSONStringify(obj) ==
    LET keys == {k \in DOMAIN obj : obj[k] # Undefined}
    IN [k \in keys |-> The(obj[k])]

\* fetch(`${url}/emotions`, { method: 'POST', headers, body: JSON.stringify(reqBody) })
FetchRequest(url, headers, reqBody) ==
    [ url     |-> The(url) \o "/emotions",
      method  |-> "POST",
      headers |-> headers,
      body    |-> JSONStringify(reqBody) ]

\* Response.ok of the fetch API.
ResOk(status) == status \in 200..299

\* if (res.ok) return true;  logger.error(...);  return false;
ResponseResult(status) == IF ResOk(status) THEN "true" ELSE "false"

\* Variant: no catch around the fetch, the rejection reaches the caller.
FetchRejectionPropagates == "rejected"

\* catch (err) { logger.error(...) }  return false;
FetchRejectedResult == "false"

WhIdle ==
    [ pc |-> "idle", result |-> "pending", callTime |-> 0, bufAtCall |-> <<>>,
      response |-> "none", status |-> 0 ]

\* The synchronous part of an invocation: from the call to the first await.
CallSendFaceExpressionsWebhook ==
    /\ wh.pc \in {"idle", "done"}
    /\ LET started == [WhIdle EXCEPT !.callTime = now, !.bufAtCall = faceExpressionsBuffer]
           headers == Headers(jwt)
           reqBody == ReqBody(conference, localParticipant, connection,
                              faceExpressionsBuffer, now)
       IN IF BufferIsEmpty(faceExpressionsBuffer)
          THEN /\ wh' = [started EXCEPT !.pc = "done", !.result = "false"]
               /\ requests' = <<>>
          ELSE IF UrlConfigured(webhookProxyUrl)
          THEN /\ requests' = <<FetchRequest(webhookProxyUrl, headers, reqBody)>>
               /\ wh' = [started EXCEPT !.pc = "awaitFetch"]
          ELSE /\ wh' = [started EXCEPT !.pc = "done", !.result = "false"]
               /\ requests' = <<>>
    /\ UNCHANGED <<webhookProxyUrl, jwt, conference, connection, localParticipant,
                   faceExpressionsBuffer, now, workerVars, helperVars, notificationVars>>

\* Variant: the buffer is emptied as soon as a response arrives.
FetchResolvesAndClears ==
    /\ wh.pc = "awaitFetch"
    /\ \E status \in Statuses :
          wh' = [wh EXCEPT !.pc = "done", !.response = "resolved", !.status = status,
                           !.result = ResponseResult(status)]
    /\ faceExpressionsBuffer' = <<>>
    /\ UNCHANGED <<webhookProxyUrl, jwt, conference, connection, localParticipant,
                   now, requests, workerVars, helperVars, notificationVars>>

\* The awaited fetch resolves with a response.
FetchResolves ==
    /\ wh.pc = "awaitFetch"
    /\ \E status \in Statuses :
          wh' = [wh EXCEPT !.pc = "done", !.response = "resolved", !.status = status,
                           !.result = ResponseResult(status)]
    /\ UNCHANGED <<webhookProxyUrl, jwt, conference, connection, localParticipant,
                   faceExpressionsBuffer, now, requests, workerVars, helperVars, notificationVars>>

\* The awaited fetch rejects (network error, timeout).
FetchRejects ==
    /\ wh.pc = "awaitFetch"
    /\ wh' = [wh EXCEPT !.pc = "done", !.response = "rejected",
                        !.result = FetchRejectedResult]
    /\ UNCHANGED <<webhookProxyUrl, jwt, conference, connection, localParticipant,
                   faceExpressionsBuffer, now, requests, workerVars, helperVars, notificationVars>>

\* The store appends a detected expression to the buffer.
AddFaceExpression ==
    /\ Len(faceExpressionsBuffer) < MaxBuffer
    /\ \E e \in Expressions : faceExpressionsBuffer' = Append(faceExpressionsBuffer, e)
    /\ UNCHANGED <<webhookProxyUrl, jwt, conference, connection, localParticipant,
                   now, requests, wh, workerVars, helperVars, notificationVars>>

\* The store clears the buffer.
ClearFaceExpressionsBuffer ==
    /\ faceExpressionsBuffer # <<>>
    /\ faceExpressionsBuffer' = <<>>
    /\ UNCHANGED <<webhookProxyUrl, jwt, conference, connection, localParticipant,
                   now, requests, wh, workerVars, helperVars, notificationVars>>

\* Time passes.
Tick ==
    /\ now < MaxClock
    /\ now' = now + 1
    /\ UNCHANGED <<webhookProxyUrl, jwt, conference, connection, localParticipant,
                   faceExpressionsBuffer, requests, wh, workerVars, helperVars, notificationVars>>

-----------------------------------------------------------------------------
(* sendDataToWorker *)

\* constants.ts: the operation tag of a detection request.
DETECT_FACE == "detect-face"

\* threshold = 10
DefaultThreshold == 10

Invocations == 1..NumInvocations

ImageCaptures == {"null", "undefined", "capture"}

\* The threshold argument list: omitted, or one value.
ThresholdArgs == {<<>>, <<25>>}

\* Width and height of a grabbed frame.
FrameSizes == {<<1, 1>>, <<2, 1>>}

\* if (imageCapture === null || imageCapture === undefined) return false;
NoImageCapture(ic) == ic = "null" \/ ic = "undefined"

\* Variant: the parameter is used as given, without its default.
ThresholdAsGiven(args) == IF args = <<>> THEN Undefined ELSE Some(args[1])

\* The value of the threshold parameter: its default when the argument is omitted.
Threshold(args) == IF args = <<>> THEN Some(DefaultThreshold) ELSE Some(args[1])

\* Variant: no catch around grabFrame, its failure reaches the caller.
GrabFailurePropagates == "rejected"

\* catch (err) { logger.warn(err); return false; }
GrabFailedResult == "false"

\* Variant: the canvas is resized and redrawn only when the frame size changed.
DrawOnCanvasWhenResized(cv, ctx, bitmap) ==
    IF cv.width = bitmap.width /\ cv.height = bitmap.height /\ cv.drawn # 0
    THEN cv
    ELSE [ width  |-> bitmap.width,
           height |-> bitmap.height,
           drawn  |-> IF ctx = Undefined THEN 0 ELSE bitmap.id ]

\* canvas.width = ...; canvas.height = ...; context?.drawImage(imageBitmap, 0, 0);
\* Resizing clears the canvas; without a context nothing is drawn.
DrawOnCanvas(cv, ctx, bitmap) ==
    [ width  |-> bitmap.width,
      height |-> bitmap.height,
      drawn  |-> IF ctx = Undefined THEN 0 ELSE bitmap.id ]

\* context?.getImageData(0, 0, imageBitmap.width, imageBitmap.height)
GetImageData(cv, ctx, bitmap) ==
    IF ctx = Undefined THEN Undefined
    ELSE Some([ kind |-> "ImageData", pixelsOf |-> cv.drawn,
                width |-> bitmap.width, height |-> bitmap.height ])

\* image = imageBitmap
BitmapImage(bitmap) ==
    Some([ kind |-> "ImageBitmap", pixelsOf |-> bitmap.id,
           width |-> bitmap.width, height |-> bitmap.height ])

\* { type: DETECT_FACE, image, threshold }
DetectFaceMessage(image, threshold) ==
    [ type |-> DETECT_FACE, image |-> image, threshold |-> threshold ]

\* The synchronous part of an invocation: the null check and the call of grabFrame.
CallSendDataToWorker(i) ==
    /\ sw[i].pc = "idle"
    /\ \E ic \in ImageCaptures, args \in ThresholdArgs :
          LET awaiting == {j \in Invocations : sw[j].pc = "awaitGrab"}
              called == [sw[i] EXCEPT !.imageCapture = ic, !.thresholdArgs = args,
                                      !.during = awaiting]
          IN IF NoImageCapture(ic)
             THEN sw' = [sw EXCEPT ![i] = [called EXCEPT !.pc = "done", !.result = "false"]]
             ELSE sw' = [sw EXCEPT ![i] = [called EXCEPT !.pc = "awaitGrab", !.grabCalls = 1]]
    /\ UNCHANGED <<hasOffscreenCanvas, canvas, context, bitmapCloses, workerQueue,
                   workerHandled, webhookVars, helperVars, notificationVars>>

\* grabFrame fails: the catch returns false.
GrabFrameRejects(i) ==
    /\ sw[i].pc = "awaitGrab"
    /\ sw' = [sw EXCEPT ![i].pc = "done", ![i].result = GrabFailedResult]
    /\ UNCHANGED <<hasOffscreenCanvas, canvas, context, bitmapCloses, workerQueue,
                   workerHandled, webhookVars, helperVars, notificationVars>>

\* grabFrame delivers a bitmap: the rest of the function runs without another
\* suspension. postMessage either queues the message or throws; when it throws
\* the statements after it are skipped and the returned promise rejects.
GrabFrameResolves(i) ==
    /\ sw[i].pc = "awaitGrab"
    /\ \E size \in FrameSizes, postThrows \in BOOLEAN :
          LET bitmap == [id |-> Len(bitmapCloses) + 1, width |-> size[1], height |-> size[2]]
              drawn  == IF hasOffscreenCanvas THEN canvas
                        ELSE Some(DrawOnCanvas(The(canvas), context, bitmap))
              image  == IF hasOffscreenCanvas THEN BitmapImage(bitmap)
                        ELSE GetImageData(The(drawn), context, bitmap)
              msg    == DetectFaceMessage(image, Threshold(sw[i].thresholdArgs))
          IN /\ canvas' = drawn
             /\ IF postThrows
                THEN /\ workerQueue' = workerQueue
                     /\ bitmapCloses' = Append(bitmapCloses, 0)
                     /\ sw' = [sw EXCEPT ![i].pc = "done", ![i].result = "rejected",
                                         ![i].bitmap = bitmap.id]
                ELSE /\ workerQueue' = Append(workerQueue, msg)
                     /\ bitmapCloses' = Append(bitmapCloses, 1)
                     /\ sw' = [sw EXCEPT ![i].pc = "done", ![i].result = "true",
                                         ![i].bitmap = bitmap.id, ![i].closes = 1,
                                         ![i].sent = <<msg>>]
    /\ UNCHANGED <<hasOffscreenCanvas, context, workerHandled, webhookVars, helperVars, notificationVars>>

\* The worker takes the next message off its queue.
WorkerHandlesMessage ==
    /\ workerQueue # <<>>
    /\ workerQueue' = Tail(workerQueue)
    /\ workerHandled' = workerHandled + 1
    /\ UNCHANGED <<hasOffscreenCanvas, canvas, context, bitmapCloses, sw, webhookVars, helperVars, notificationVars>>

-----------------------------------------------------------------------------
(* sendFaceExpressionToParticipants, sendFaceBoxToParticipants,
   sendFaceExpressionToServer *)

\* constants.ts: the type tag of a face box message.
FACE_BOX_EVENT_TYPE == "face-box"

\* The conference argument: missing, or a conference handle.
Conferences == {Undefined, Some("conference")}

Durations == {1, 3}

FaceBoxes ==
    { [right |-> Some(80), width |-> Some(20)],
      [right |-> Some(0), width |-> Some(20)],
      [right |-> Undefined, width |-> Undefined] }

\* What the conference does with a send: without a handle the member access
\* throws a TypeError; with one, the send returns or throws.
SendBehaviours(conf) == IF conf = Undefined THEN {"throws"} ELSE {"returns", "throws"}

\* Variant: no try/catch, a throwing send reaches the caller.
SendFailurePropagates(fn, call, warning) ==
    [ fn |-> fn, attempts |-> 1, delivered |-> <<>>, warnings |-> <<>>,
      outcome |-> "threw" ]

\* catch (err) { logger.warn(..., err); }
SendFailed(fn, call, warning) ==
    [ fn |-> fn, attempts |-> 1, delivered |-> <<>>, warnings |-> <<warning>>,
      outcome |-> "returned" ]

\* The send returned: the function falls off its try block.
SendDone(fn, call) ==
    [ fn |-> fn, attempts |-> 1, delivered |-> <<call>>, warnings |-> <<>>,
      outcome |-> "returned" ]

\* try { <call> } catch (err) { logger.warn(<warning>, err); }
TrySend(fn, behaviour, call, warning) ==
    IF behaviour = "throws" THEN SendFailed(fn, call, warning) ELSE SendDone(fn, call)

SendFaceExpressionToParticipants ==
    /\ \E conf \in Conferences, faceExpression \in Expressions, duration \in Durations :
          \E behaviour \in SendBehaviours(conf) :
             send' = TrySend("sendFaceExpressionToParticipants", behaviour,
                        [ method |-> "sendEndpointMessage", to |-> Some(""),
                          payload |-> [ type |-> Some("face_landmark"),
                                        faceExpression |-> Some(faceExpression),
                                        duration |-> Some(duration),
                                        faceBox |-> Undefined ] ],
                        "Could not broadcast the face expression to the other participants")
    /\ UNCHANGED <<faceLandmarks, detectionInterval, faceBoxes, objectPosition,
                   webhookVars, workerVars, notificationVars>>

SendFaceBoxToParticipants ==
    /\ \E conf \in Conferences, faceBox \in FaceBoxes :
          \E behaviour \in SendBehaviours(conf) :
             send' = TrySend("sendFaceBoxToParticipants", behaviour,
                        [ method |-> "sendEndpointMessage", to |-> Some(""),
                          payload |-> [ type |-> Some(FACE_BOX_EVENT_TYPE),
                                        faceExpression |-> Undefined,
                                        duration |-> Undefined,
                                        faceBox |-> Some(faceBox) ] ],
                        "Could not broadcast the face box to the other participants")
    /\ UNCHANGED <<faceLandmarks, detectionInterval, faceBoxes, objectPosition,
                   webhookVars, workerVars, notificationVars>>

SendFaceExpressionToServer ==
    /\ \E conf \in Conferences, faceExpression \in Expressions, duration \in Durations :
          \E behaviour \in SendBehaviours(conf) :
             send' = TrySend("sendFaceExpressionToServer", behaviour,
                        [ method |-> "sendFaceLandmarks", to |-> Undefined,
                          payload |-> [ type |-> Undefined,
                                        faceExpression |-> Some(faceExpression),
                                        duration |-> Some(duration),
                                        faceBox |-> Undefined ] ],
                        "Could not send the face expression to xmpp server")
    /\ UNCHANGED <<faceLandmarks, detectionInterval, faceBoxes, objectPosition,
                   webhookVars, workerVars, notificationVars>>

-----------------------------------------------------------------------------
(* getDetectionInterval *)

\* constants.ts: the default interval between two detections, in milliseconds.
SEND_IMAGE_INTERVAL_MS == 1000

CaptureIntervals == {Undefined, Some(0), Some(1), Some(500), Some(1000), Some(2000)}

FaceLandmarksConfigs ==
    {Undefined} \cup {Some([captureInterval |-> ci]) : ci \in CaptureIntervals}

\* faceLandmarks?.captureInterval
CaptureInterval(fl) == IF fl = Undefined THEN Undefined ELSE The(fl).captureInterval

\* a || b on an optional number: b when a is undefined or 0.
OrElse(a, b) == IF a = Undefined \/ The(a) = 0 THEN b ELSE The(a)

\* Math.max of its argument list.
RECURSIVE MathMax(_)
MathMax(args) ==
    IF Len(args) = 1 THEN args[1]
    ELSE LET rest == MathMax(Tail(args))
         IN IF args[1] >= rest THEN args[1] ELSE rest

\* Math.max(faceLandmarks?.captureInterval || SEND_IMAGE_INTERVAL_MS)
GetDetectionInterval(fl) ==
    MathMax(<<OrElse(CaptureInterval(fl), SEND_IMAGE_INTERVAL_MS)>>)

CallGetDetectionInterval ==
    /\ detectionInterval' = Some(GetDetectionInterval(faceLandmarks))
    /\ UNCHANGED <<faceLandmarks, send, faceBoxes, objectPosition, webhookVars, workerVars, notificationVars>>

-----------------------------------------------------------------------------
(* getVideoObjectPosition *)

\* The participants for which the store may hold a face box.
ParticipantIds == {"p1"}

\* The id argument: omitted, empty, a participant with or without a face box.
IdArgs == {Undefined, Some(""), Some("p1"), Some("p2")}

\* The right and width of a stored face box: missing, or a percentage.
BoxValues == {Undefined, Some(0), Some(15), Some(20), Some(80)}

\* state['features/face-landmarks'].faceBoxes: at most one box per participant.
FaceBoxStores ==
    UNION { [ids -> [right : BoxValues, width : BoxValues]] : ids \in SUBSET ParticipantIds }

\* getFaceBoxForId: faceBoxes[id], undefined when there is no such key.
GetFaceBoxForId(id, boxes) == IF id \in DOMAIN boxes THEN Some(boxes[id]) ELSE Undefined

\* JavaScript truthiness of an optional number: undefined and 0 are falsy.
TruthyNumber(o) == o # Undefined /\ The(o) # 0

\* Variant: right and width are tested for presence, not for truthiness.
BothPresent(right, width) == right # Undefined /\ width # Undefined

\* if (right && width)
BothTruthy(right, width) == TruthyNumber(right) /\ TruthyNumber(width)

\* The decimal text of the number twice / 2, as a template literal writes it.
HalvesToString(twice) ==
    LET abs   == IF twice < 0 THEN 0 - twice ELSE twice
        sign  == IF twice < 0 THEN "-" ELSE ""
        whole == ToString(abs \div 2)
    IN IF abs % 2 = 0 THEN sign \o whole ELSE sign \o whole \o ".5"

\* `${right - (width / 2)}% 50%`
PositionOf(right, width) == HalvesToString(2 * right - width) \o "% 50%"

\* The body of getVideoObjectPosition.
GetVideoObjectPosition(boxes, id) ==
    LET faceBox == IF TruthyString(id) THEN GetFaceBoxForId(The(id), boxes) ELSE Undefined
    IN IF faceBox # Undefined /\ BothTruthy(The(faceBox).right, The(faceBox).width)
       THEN PositionOf(The(The(faceBox).right), The(The(faceBox).width))
       ELSE "50% 50%"

CallGetVideoObjectPosition ==
    /\ \E id \in IdArgs :
          objectPosition' = [ called |-> TRUE, id |-> id,
                              result |-> GetVideoObjectPosition(faceBoxes, id) ]
    /\ UNCHANGED <<faceLandmarks, detectionInterval, send, faceBoxes, webhookVars, workerVars, notificationVars>>

-----------------------------------------------------------------------------
(* NotificationsContainer._onDismissed *)

\* The uid of a notification (a number in Props._notifications).
Uids == 1..NumNotifications

\* The handles setTimeout returns: integers greater than zero.
TimerIds == 1..NumNotifications

\* `${uid}`
UidKey(uid) == ToString(uid)

\* The contents this._timeouts may have: a timer for some of the
\* notifications, no timer recorded twice.
TimeoutMaps ==
    LET maps == UNION { [keys -> TimerIds] : keys \in SUBSET {UidKey(u) : u \in Uids} }
    IN {m \in maps : \A a, b \in DOMAIN m : m[a] = m[b] => a = b}

\* Map.prototype.get: undefined when the key is absent.
MapGet(map, key) == IF key \in DOMAIN map THEN Some(map[key]) ELSE Undefined

\* Map.prototype.delete
MapDelete(map, key) == [k \in DOMAIN map \ {key} |-> map[k]]

\* hideNotification(uid)
HideNotification(uid) == [type |-> "HIDE_NOTIFICATION", uid |-> uid]

\* Variant: the timer is cancelled but its entry stays in the map.
TimeoutsKeptOnDismiss(map, uid) == map

\* if (timeout) { ...; this._timeouts.delete(`${uid}`); }
TimeoutsAfterDismiss(map, uid) ==
    IF TruthyNumber(MapGet(map, UidKey(uid))) THEN MapDelete(map, UidKey(uid)) ELSE map

\* if (timeout) { clearTimeout(timeout); ... }
TimersAfterDismiss(timers, map, uid) ==
    LET timeout == MapGet(map, UidKey(uid))
    IN IF TruthyNumber(timeout) THEN timers \ {The(timeout)} ELSE timers

\* _onDismissed(uid)
_onDismissed(uid) ==
    /\ dismissal.calls < MaxDismissals
    /\ _timeouts' = TimeoutsAfterDismiss(_timeouts, uid)
    /\ pendingTimers' = TimersAfterDismiss(pendingTimers, _timeouts, uid)
    /\ dispatched' = Append(dispatched, HideNotification(uid))
    /\ dismissal' = [ calls |-> dismissal.calls + 1, uid |-> uid,
                      timeoutsBefore |-> _timeouts, timersBefore |-> pendingTimers ]
    /\ UNCHANGED <<webhookVars, workerVars, helperVars>>

-----------------------------------------------------------------------------
(* Specifications *)

\* The container as its constructor leaves it.
NotificationsAtRest ==
    /\ _timeouts = <<>>
    /\ pendingTimers = {}
    /\ dispatched = <<>>
    /\ dismissal = [ calls |-> 0, uid |-> 0, timeoutsBefore |-> <<>>, timersBefore |-> {} ]

\* No helper has been called.
HelpersAtRest ==
    /\ faceLandmarks = Undefined
    /\ detectionInterval = Undefined
    /\ send = [ fn |-> "none", attempts |-> 0, delivered |-> <<>>, warnings |-> <<>>,
                outcome |-> "none" ]
    /\ faceBoxes = <<>>
    /\ objectPosition = [ called |-> FALSE, id |-> Undefined, result |-> "" ]

\* The webhook state before any call of sendFaceExpressionsWebhook.
WebhookAtRest ==
    /\ webhookProxyUrl = Undefined
    /\ jwt = Undefined
    /\ conference = Undefined
    /\ connection = Undefined
    /\ localParticipant = Undefined
    /\ faceExpressionsBuffer = <<>>
    /\ now = 0
    /\ requests = <<>>
    /\ wh = WhIdle

\* No invocation of sendDataToWorker has started.
NoInvocation ==
    [i \in Invocations |->
        [ pc |-> "idle", imageCapture |-> "null", thresholdArgs |-> <<>>,
          result |-> "pending", bitmap |-> 0, grabCalls |-> 0, closes |-> 0,
          sent |-> <<>>, during |-> {} ]]

\* The worker pipeline as it is before any call of sendDataToWorker, in a
\* browser with transferable bitmaps.
WorkerAtRest ==
    /\ hasOffscreenCanvas = TRUE
    /\ canvas = Undefined
    /\ context = Undefined
    /\ bitmapCloses = <<>>
    /\ workerQueue = <<>>
    /\ workerHandled = 0
    /\ sw = NoInvocation

InitWebhook ==
    /\ webhookProxyUrl \in Urls
    /\ jwt \in Tokens
    /\ \E id \in Identities :
          /\ conference = id.conference
          /\ connection = id.connection
          /\ localParticipant = id.localParticipant
    /\ faceExpressionsBuffer = <<>>
    /\ now = 0
    /\ requests = <<>>
    /\ wh = WhIdle
    /\ WorkerAtRest
    /\ HelpersAtRest
    /\ NotificationsAtRest

NextWebhook ==
    \/ CallSendFaceExpressionsWebhook
    \/ FetchResolves
    \/ FetchRejects
    \/ AddFaceExpression
    \/ ClearFaceExpressionsBuffer
    \/ Tick

SpecWebhook == InitWebhook /\ [][NextWebhook]_vars

\* Module initialisation (lines 9-15): the canvas and its context exist only
\* where OffscreenCanvas does not; getContext may return null.
InitWorker ==
    /\ hasOffscreenCanvas \in BOOLEAN
    /\ IF hasOffscreenCanvas
       THEN canvas = Undefined /\ context = Undefined
       ELSE /\ canvas = Some([width |-> 300, height |-> 150, drawn |-> 0])
            /\ context \in {Undefined, Some("2d")}
    /\ bitmapCloses = <<>>
    /\ workerQueue = <<>>
    /\ workerHandled = 0
    /\ sw = NoInvocation
    /\ WebhookAtRest
    /\ HelpersAtRest
    /\ NotificationsAtRest

NextWorker ==
    \/ \E i \in Invocations : CallSendDataToWorker(i)
    \/ \E i \in Invocations : GrabFrameRejects(i)
    \/ \E i \in Invocations : GrabFrameResolves(i)
    \/ WorkerHandlesMessage

SpecWorker == InitWorker /\ [][NextWorker]_vars

InitHelpers ==
    /\ faceLandmarks \in FaceLandmarksConfigs
    /\ detectionInterval = Undefined
    /\ send = [ fn |-> "none", attempts |-> 0, delivered |-> <<>>, warnings |-> <<>>,
                outcome |-> "none" ]
    /\ faceBoxes \in FaceBoxStores
    /\ objectPosition = [ called |-> FALSE, id |-> Undefined, result |-> "" ]
    /\ WebhookAtRest
    /\ WorkerAtRest
    /\ NotificationsAtRest

NextHelpers ==
    \/ SendFaceExpressionToParticipants
    \/ SendFaceBoxToParticipants
    \/ SendFaceExpressionToServer
    \/ CallGetDetectionInterval
    \/ CallGetVideoObjectPosition

SpecHelpers == InitHelpers /\ [][NextHelpers]_vars

\* Nothing in the component's file writes this._timeouts; what it holds when
\* the dismissals start, and which timers are still pending, are inputs.
InitNotifications ==
    /\ _timeouts \in TimeoutMaps
    /\ pendingTimers \in SUBSET TimerIds
    /\ dispatched = <<>>
    /\ dismissal = [ calls |-> 0, uid |-> 0, timeoutsBefore |-> <<>>, timersBefore |-> {} ]
    /\ WebhookAtRest
    /\ WorkerAtRest
    /\ HelpersAtRest

NextNotifications == \E uid \in Uids : _onDismissed(uid)

SpecNotifications == InitNotifications /\ [][NextNotifications]_vars

-----------------------------------------------------------------------------
(* Properties of sendFaceExpressionsWebhook *)

\* The invocation found a non-empty buffer and a configured webhook URL.
WebhookShouldPost ==
    /\ wh.bufAtCall # <<>>
    /\ webhookProxyUrl # Undefined
    /\ The(webhookProxyUrl) # ""

\* C1: an invocation issues a POST to <webhookProxyUrl>/emotions if and only
\* if the buffer is non-empty and a URL is configured; it issues it exactly
\* once, also after a failed attempt; otherwise the result is false and no
\* network call was made.
C1_PostIffBufferAndUrl ==
    wh.pc # "idle" =>
        /\ Len(requests) = IF WebhookShouldPost THEN 1 ELSE 0
        /\ \A i \in 1..Len(requests) :
              /\ requests[i].method = "POST"
              /\ requests[i].url = The(webhookProxyUrl) \o "/emotions"
        /\ ~WebhookShouldPost => wh.pc = "done" /\ wh.result = "false"

\* A submission failed (transport error or error status) and exactly one
\* POST was issued.
C1_Witness ==
    /\ wh.pc = "done"
    /\ wh.result = "false"
    /\ wh.response \in {"rejected", "resolved"}
    /\ Len(requests) = 1

\* C2: the invocation resolves to true if and only if a POST was issued and
\* its response has a success status; on an error status and on a rejected
\* fetch it resolves to false; it never rejects.
C2_TrueIffResponseOk ==
    /\ wh.result # "rejected"
    /\ wh.pc = "done" =>
          /\ wh.result \in {"true", "false"}
          /\ wh.result = "true" <=>
                (Len(requests) = 1 /\ wh.response = "resolved" /\ wh.status \in 200..299)

\* The fetch of an invocation rejected and the invocation resolved to false.
C2_Witness ==
    /\ wh.pc = "done"
    /\ wh.response = "rejected"
    /\ wh.result = "false"

\* C8: the body of the POST carries in emotions exactly the buffer as it was
\* at the call, in order, whatever the store does to its buffer while the
\* POST is pending, and a submitted timestamp not earlier than the call.
C8_BodyIsBufferAtCall ==
    \A i \in 1..Len(requests) :
        /\ "emotions" \in DOMAIN requests[i].body
        /\ requests[i].body.emotions = wh.bufAtCall
        /\ "submitted" \in DOMAIN requests[i].body
        /\ requests[i].body.submitted >= wh.callTime

\* A POST carrying two entries is pending, the store's buffer has changed
\* since the call and the clock has advanced.
C8_Witness ==
    /\ wh.pc = "awaitFetch"
    /\ Len(requests) = 1
    /\ Len(wh.bufAtCall) = 2
    /\ wh.bufAtCall[1] # wh.bufAtCall[2]
    /\ faceExpressionsBuffer # wh.bufAtCall
    /\ wh.callTime > 0
    /\ now > wh.callTime

\* C9: the headers of the POST always hold Content-Type: application/json;
\* they hold Authorization: Bearer <token> when the state holds a token and
\* no Authorization key at all when it holds none.
C9_Headers ==
    \A i \in 1..Len(requests) :
        LET h == requests[i].headers
        IN /\ "Content-Type" \in DOMAIN h
           /\ h["Content-Type"] = "application/json"
           /\ jwt = Some("tok") =>
                 "Authorization" \in DOMAIN h /\ h["Authorization"] = "Bearer tok"
           /\ jwt \in {Undefined, Some("")} => DOMAIN h = {"Content-Type"}

\* A POST was issued from a state that holds a token.
C9_Witness ==
    /\ Len(requests) = 1
    /\ jwt = Some("tok")

-----------------------------------------------------------------------------
(* Properties of sendDataToWorker *)

\* C3: every invocation in which grabFrame succeeded has closed the grabbed
\* bitmap exactly once by the time it finishes, on both paths, whether
\* worker.postMessage succeeded or threw.
C3_BitmapClosedOnce ==
    \A i \in Invocations :
        (sw[i].pc = "done" /\ sw[i].bitmap # 0) => bitmapCloses[sw[i].bitmap] = 1

\* C4: a throwing worker.postMessage does not make the promise returned by
\* sendDataToWorker reject.
C4_PostFailureNotPropagated ==
    \A i \in Invocations : sw[i].result # "rejected"

\* An invocation obtained no sample: no image capture, or grabFrame failed.
NoSample(i) ==
    /\ sw[i].pc = "done"
    /\ sw[i].bitmap = 0

\* C5: an invocation that obtains no sample resolves to false, posts no
\* message, closes no bitmap and does not reject; with a null or undefined
\* imageCapture it never calls grabFrame.
C5_NoSampleIsFalse ==
    \A i \in Invocations :
        /\ (sw[i].pc # "idle" /\ sw[i].imageCapture \in {"null", "undefined"}) =>
              /\ NoSample(i)
              /\ sw[i].grabCalls = 0
        /\ NoSample(i) =>
              /\ sw[i].result = "false"
              /\ sw[i].sent = <<>>
              /\ sw[i].closes = 0

\* One invocation was given an undefined image capture and has finished; in
\* another one grabFrame was called once and failed.
C5_Witness ==
    \E i, j \in Invocations :
        /\ NoSample(i) /\ sw[i].imageCapture = "undefined"
        /\ NoSample(j) /\ sw[j].imageCapture = "capture" /\ sw[j].grabCalls = 1

\* C6: an invocation resolves to true if and only if it posted exactly one
\* message {type: DETECT_FACE, image, threshold} with the caller's threshold
\* (10 when omitted); it is resolved as soon as the message is queued, without
\* the worker having handled anything; a false result posted nothing.
C6_FireAndForget ==
    \A i \in Invocations :
        /\ Len(sw[i].sent) <= 1
        /\ sw[i].result = "true" <=> Len(sw[i].sent) = 1
        /\ sw[i].result = "false" => sw[i].sent = <<>>
        /\ \A k \in 1..Len(sw[i].sent) :
              LET m == sw[i].sent[k]
              IN /\ DOMAIN m = {"type", "image", "threshold"}
                 /\ m.type = "detect-face"
                 /\ m.threshold = IF sw[i].thresholdArgs = <<>> THEN {10}
                                  ELSE {sw[i].thresholdArgs[1]}

\* An invocation called without a threshold has resolved to true while its
\* message is still waiting in the worker's queue and the worker has handled
\* nothing yet.
C6_Witness ==
    \E i \in Invocations :
        /\ sw[i].result = "true"
        /\ sw[i].thresholdArgs = <<>>
        /\ workerHandled = 0
        /\ workerQueue = sw[i].sent

-----------------------------------------------------------------------------
(* Properties of the send functions and of getDetectionInterval *)

\* C7: each of the three send functions makes exactly one send attempt on
\* the conference (sendEndpointMessage to '' for the two broadcasts,
\* sendFaceLandmarks for the server report) and returns normally whatever
\* the send does; a throwing send, also one on a missing conference, is
\* swallowed and not retried.
C7_SendsOnceNeverThrows ==
    send.fn # "none" =>
        /\ send.outcome = "returned"
        /\ send.attempts = 1
        /\ Len(send.delivered) + Len(send.warnings) = 1
        /\ \A k \in 1..Len(send.delivered) :
              IF send.fn = "sendFaceExpressionToServer"
              THEN send.delivered[k].method = "sendFaceLandmarks"
              ELSE /\ send.delivered[k].method = "sendEndpointMessage"
                   /\ send.delivered[k].to = {""}

\* A send threw and the function has returned, having logged one warning.
C7_Witness ==
    /\ send.fn = "sendFaceBoxToParticipants"
    /\ send.delivered = <<>>
    /\ Len(send.warnings) = 1
    /\ send.outcome = "returned"

\* C10: getDetectionInterval returns the larger of the configured
\* faceLandmarks.captureInterval and SEND_IMAGE_INTERVAL_MS, so never less
\* than SEND_IMAGE_INTERVAL_MS, also when the configured interval is below
\* the default, zero or absent.
C10_IntervalIsLargerOfTwo ==
    detectionInterval # Undefined =>
        LET ci      == CaptureInterval(faceLandmarks)
            result  == The(detectionInterval)
            largest == IF ci # Undefined /\ The(ci) > SEND_IMAGE_INTERVAL_MS
                       THEN The(ci) ELSE SEND_IMAGE_INTERVAL_MS
        IN /\ result = largest
           /\ result >= SEND_IMAGE_INTERVAL_MS

-----------------------------------------------------------------------------
(* Properties of getVideoObjectPosition *)

\* The call was given a participant id for which a face box is stored whose
\* right and width are both present and non-zero.
HasUsableFaceBox ==
    /\ objectPosition.id # Undefined
    /\ The(objectPosition.id) \in DOMAIN faceBoxes
    /\ LET box == faceBoxes[The(objectPosition.id)]
       IN /\ box.right \notin {Undefined, {0}}
          /\ box.width \notin {Undefined, {0}}

\* C11: getVideoObjectPosition returns "<right - width/2>% 50%" exactly when
\* an id is given, a face box is stored for it and its right and width are
\* both present and non-zero, and "50% 50%" in every other case;
\* {right: 80, width: 20} gives "70% 50%", {right: 0, width: 20} "50% 50%".
C11_ObjectPosition ==
    objectPosition.called =>
        /\ IF HasUsableFaceBox
           THEN LET box == faceBoxes[The(objectPosition.id)]
                IN objectPosition.result = PositionOf(The(box.right), The(box.width))
           ELSE objectPosition.result = "50% 50%"
        /\ (objectPosition.id = {"p1"} /\ faceBoxes = [p \in {"p1"} |-> [right |-> {80}, width |-> {20}]])
              => objectPosition.result = "70% 50%"
        /\ (objectPosition.id = {"p1"} /\ faceBoxes = [p \in {"p1"} |-> [right |-> {80}, width |-> {15}]])
              => objectPosition.result = "72.5% 50%"
        /\ (objectPosition.id = {"p1"} /\ faceBoxes = [p \in {"p1"} |-> [right |-> {0}, width |-> {20}]])
              => objectPosition.result = "50% 50%"

\* The position of the box {right: 0, width: 20} was asked for.
C11_Witness ==
    /\ objectPosition.called
    /\ objectPosition.id = {"p1"}
    /\ "p1" \in DOMAIN faceBoxes
    /\ faceBoxes["p1"] = [right |-> {0}, width |-> {20}]
    /\ objectPosition.result = "50% 50%"

-----------------------------------------------------------------------------
(* Frame of sendFaceExpressionsWebhook *)

\* The application state sendFaceExpressionsWebhook reads.
WebhookReadState ==
    <<webhookProxyUrl, jwt, conference, connection, localParticipant, faceExpressionsBuffer>>

\* C12: no step of an invocation of sendFaceExpressionsWebhook (its call, the
\* response to its POST, the failure of its POST) changes the expression
\* buffer or any other state it reads; the buffer is cleared by the store
\* only, never by the function, also after a failed submission.
C12_WebhookLeavesStateUnchanged ==
    [][wh' # wh => UNCHANGED WebhookReadState]_vars

\* A submission failed and the buffer still holds the entries it held at the
\* call.
C12_Witness ==
    /\ wh.pc = "done"
    /\ wh.result = "false"
    /\ wh.response = "resolved"
    /\ wh.status = 500
    /\ Len(wh.bufAtCall) = 2
    /\ faceExpressionsBuffer = wh.bufAtCall

-----------------------------------------------------------------------------
(* The shared canvas of sendDataToWorker *)

\* C13: on the canvas path, whatever the interleaving of overlapping
\* invocations, the image an invocation posts holds the pixels and the size
\* of the bitmap that same invocation grabbed, never those of another one:
\* the canvas is drawn, read and the message posted in one uninterrupted
\* run. Where no 2d context could be obtained nothing is drawn or read and
\* the image posted is undefined.
C13_ImageIsOwnBitmap ==
    ~hasOffscreenCanvas =>
        \A i \in Invocations : \A k \in 1..Len(sw[i].sent) :
            LET image == sw[i].sent[k].image
            IN IF context = Undefined
               THEN image = Undefined
               ELSE /\ image # Undefined
                    /\ The(image).kind = "ImageData"
                    /\ The(image).pixelsOf = sw[i].bitmap
                    /\ \E size \in FrameSizes :
                          /\ The(image).width = size[1]
                          /\ The(image).height = size[2]

\* On the canvas path an invocation was called while another one was
\* awaiting grabFrame; both have posted their image and the one called
\* later received its frame first.
C13_Witness ==
    /\ ~hasOffscreenCanvas
    /\ context # Undefined
    /\ \E i, j \in Invocations :
          /\ i # j
          /\ i \in sw[j].during
          /\ Len(sw[i].sent) = 1
          /\ Len(sw[j].sent) = 1
          /\ sw[j].bitmap < sw[i].bitmap
          /\ The(sw[i].sent[1].image).width = The(sw[j].sent[1].image).width

-----------------------------------------------------------------------------
(* Properties of NotificationsContainer._onDismissed *)

\* C14: every call _onDismissed(uid) dispatches hideNotification(uid) exactly
\* once, with or without a timeout recorded for uid; a recorded timeout is
\* cancelled and removed, so after the call _timeouts has no entry for uid,
\* and the entries of all other uids are as they were.
C14_DismissDispatchesOnceAndForgetsTimeout ==
    dismissal.calls > 0 =>
        LET key    == ToString(dismissal.uid)
            before == dismissal.timeoutsBefore
        IN /\ Len(dispatched) = dismissal.calls
           /\ dispatched[Len(dispatched)] = [type |-> "HIDE_NOTIFICATION", uid |-> dismissal.uid]
           /\ key \notin DOMAIN _timeouts
           /\ dismissal.uid = 1 => "1" \notin DOMAIN _timeouts
           /\ DOMAIN _timeouts = DOMAIN before \ {key}
           /\ \A k \in DOMAIN _timeouts : _timeouts[k] = before[k]
           /\ key \in DOMAIN before => before[key] \notin pendingTimers
           /\ pendingTimers = dismissal.timersBefore \
                                 (IF key \in DOMAIN before THEN {before[key]} ELSE {})

\* A notification whose recorded timeout was still pending has been
\* dismissed, and the timeout recorded for another notification is still in
\* the map.
C14_Witness ==
    /\ dismissal.calls = 1
    /\ ToString(dismissal.uid) \in DOMAIN dismissal.timeoutsBefore
    /\ dismissal.timeoutsBefore[ToString(dismissal.uid)] \in dismissal.timersBefore
    /\ Len(dispatched) = 1
    /\ _timeouts # <<>>

====
